---------------------------- MODULE Spec2Model ----------------------------
(***************************************************************************)
(* A model of the polyline tessellation code of openglobus                 *)
(* (src/src/og/entity/polyline.js): the static line-data builders          *)
(* og.Polyline.appendLineData3v / appendLineDataLonLat and the og.Polyline *)
(* object that owns a line mesh and its GPU buffers.                       *)
(*                                                                         *)
(* JavaScript values are records tagged with their constructor in field t: *)
(*   [t |-> "Array",   items |-> <<...>>]       an Array (0-based)         *)
(*   [t |-> "Vector3", x, y, z]                 og.math.Vector3            *)
(*   [t |-> "LonLat",  lon, lat, height]        og.LonLat                  *)
(* The arrays the code only pushes numbers or entries to (outVertices,     *)
(* outOrders, outIndexes, _path3v, ...) are sequences; Nth reads them with *)
(* the code's 0-based subscripts.                                          *)
(***************************************************************************)
EXTENDS Integers, Sequences, FiniteSets, TLC

VARIABLES
    \* the buffers handed to the static builders, call after call
    outVertices, outOrders, outIndexes,
    outTransformedPath, outTransformedPathMerc,
    \* history of the builder calls: one entry per ring appended
    ringLog,
    \* the fields of one og.Polyline
    visibility, _closedLine,
    _path3v, _pathLonLat, _pathLonLatMerc,
    _vertices, _orders, _indexes,
    _verticesBuffer, _ordersBuffer, _indexesBuffer,
    _renderNode, _changedBuffers,
    \* the WebGL context: the buffers created and not deleted, and how many were created
    gl,
    \* the last method called on the polyline, its arguments and its outcome
    lastCall,
    \* number of mesh builds the polyline has taken
    nUpdates,
    \* the fields of one og.TextureAtlas
    canvas, _images, nodes, _btree, _handler, texture,
    \* the textures of the handler's WebGL context: those created and not
    \* deleted, and how many were created
    textures,
    \* the last addImage call: its image and its outcome
    lastAdd,
    \* a tree of og.TextureAtlasNode that insert is called on directly, and the
    \* history of those calls
    root, insertLog,
    \* the field _planet of each Layer, the list layers of each planet, and
    \* the last addTo or remove call with the value it returned
    _planet, layers, lastLayerCall

builderVars == <<outVertices, outOrders, outIndexes,
                 outTransformedPath, outTransformedPathMerc, ringLog>>

polylineVars == <<visibility, _closedLine, _path3v, _pathLonLat, _pathLonLatMerc,
                  _vertices, _orders, _indexes,
                  _verticesBuffer, _ordersBuffer, _indexesBuffer,
                  _renderNode, _changedBuffers, gl, lastCall, nUpdates>>

atlasVars == <<canvas, _images, nodes, _btree, _handler, texture, textures, lastAdd>>

nodeVars == <<root, insertLog>>

layerVars == <<_planet, layers, lastLayerCall>>

vars == <<builderVars, polylineVars, atlasVars, nodeVars, layerVars>>

\* what the builder calls leave alone, what the polyline methods leave alone,
\* and likewise for the atlas and for the tree under test
notBuilderVars == <<polylineVars, atlasVars, nodeVars, layerVars>>
notPolylineVars == <<builderVars, atlasVars, nodeVars, layerVars>>
notAtlasVars == <<builderVars, polylineVars, nodeVars, layerVars>>
notNodeVars == <<builderVars, polylineVars, atlasVars, layerVars>>
notLayerVars == <<builderVars, polylineVars, atlasVars, nodeVars>>

-----------------------------------------------------------------------------
(* Bounds of the model *)

\* points per ring
MaxLen == 3
\* rings appended to the builder buffers, over all calls
MaxTotalRings == 2
\* mesh builds of one polyline: setRenderNode calls and path updates of the
\* attached polyline (from-scratch builds and in-place updates)
MaxUpdates == 2
\* insert calls on the tree under test
MaxInserts == 3
\* addImage calls on the atlas
MaxImages == 3
\* textures created for one atlas
MaxTextures == 4
\* entries of the list layers of one planet
MaxLayers == 3

-----------------------------------------------------------------------------
(* JavaScript values *)

Vector3(x, y, z) == [t |-> "Vector3", x |-> x, y |-> y, z |-> z]

LonLat(lon, lat, height) == [t |-> "LonLat", lon |-> lon, lat |-> lat, height |-> height]

ArrayOf(items) == [t |-> "Array", items |-> items]

\* arr.length and arr[i] of a JavaScript Array
Length(arr) == Len(arr.items)

At(arr, i) == arr.items[i + 1]

\* seq[i] with the code's 0-based subscript
Nth(seq, i) == seq[i + 1]

\* if (p.constructor === Array) p = new og.math.Vector3(p[0], p[1], p[2])
ToVector3(p) ==
    IF p.t = "Array" THEN Vector3(At(p, 0), At(p, 1), At(p, 2)) ELSE p

-----------------------------------------------------------------------------
(* The ellipsoid of the render node: og.Ellipsoid and og.LonLat are not    *)
(* part of the sources at hand. They are modelled as exact, mutually       *)
(* inverse integer maps that are not the identity.                         *)

lonLatToCartesian(lonlat) ==
    Vector3(lonlat.lon + lonlat.lat, lonlat.lat + lonlat.height, lonlat.height + 1)

cartesianToLonLat(v) ==
    LET height == v.z - 1
        lat == v.y - height
        lon == v.x - lat
    IN LonLat(lon, lat, height)

forwardMercator(lonlat) == LonLat(2 * lonlat.lon, 3 * lonlat.lat, lonlat.height)

-----------------------------------------------------------------------------
(* Input paths.  Point k of the input family has the coordinates           *)
(* (k, k*k, 2k+1): the points of a ring are pairwise distinct and no three *)
(* are collinear.  Cartesian points alternate between the two accepted     *)
(* shapes, raw triple and Vector3.                                         *)

Starts == {0, 1}

Point3v(k) ==
    IF k % 2 = 0 THEN Vector3(k, k * k, 2 * k + 1)
    ELSE ArrayOf(<<k, k * k, 2 * k + 1>>)

PointLonLat(k) == LonLat(k, k * k, 2 * k + 1)

RECURSIVE SumTo(_, _)
SumTo(lens, j) == IF j = 0 THEN 0 ELSE lens[j] + SumTo(lens, j - 1)

\* the path whose ring j has lens[j] consecutive points, the first ring starting at point s
Path3v(s, lens) ==
    [j \in 1..Len(lens) |->
        ArrayOf([i \in 1..lens[j] |-> Point3v(s + SumTo(lens, j - 1) + i - 1)])]

PathLonLat(s, lens) ==
    [j \in 1..Len(lens) |->
        ArrayOf([i \in 1..lens[j] |-> PointLonLat(s + SumTo(lens, j - 1) + i - 1)])]

\* an open path needs 2 points per ring to extrapolate from, a closed ring 1
MinLen(isClosed) == IF isClosed THEN 1 ELSE 2

LenLists(isClosed, lo, hi) ==
    UNION {[1..k -> MinLen(isClosed)..MaxLen] : k \in lo..hi}

-----------------------------------------------------------------------------
(* og.Polyline.appendLineData3v and og.Polyline.appendLineDataLonLat *)

\* the four order tags of one logical point
ORDERS == <<1, -1, 2, -2>>

\* outVertices.push(p.x, p.y, p.z, p.x, p.y, p.z, p.x, p.y, p.z, p.x, p.y, p.z)
Quad_three(p) == <<p.x, p.y, p.z, p.x, p.y, p.z, p.x, p.y, p.z>>
Quad(p) == <<p.x, p.y, p.z, p.x, p.y, p.z, p.x, p.y, p.z, p.x, p.y, p.z>>

\* new og.math.Vector3(p0.x + p0.x - p1.x, p0.y + p0.y - p1.y, p0.z + p0.z - p1.z)
Extrapolate_swapped(p0, p1) ==
    Vector3(p1.x + p1.x - p0.x, p1.y + p1.y - p0.y, p1.z + p1.z - p0.z)
Extrapolate(p0, p1) ==
    Vector3(p0.x + p0.x - p1.x, p0.y + p0.y - p1.y, p0.z + p0.z - p1.z)

\* var index = 0; if (outIndexes.length > 0) index = outIndexes[outIndexes.length - 5] + 9
firstIndex_plus8(outIdx) ==
    IF Len(outIdx) > 0 THEN Nth(outIdx, Len(outIdx) - 5) + 8 ELSE 0
firstIndex(outIdx) ==
    IF Len(outIdx) > 0 THEN Nth(outIdx, Len(outIdx) - 5) + 9 ELSE 0

\* outIndexes.push(index++, index++, index++, index++)
pointIndexes_repeat(index) == <<index, index, index + 2, index + 3>>
pointIndexes(index) == <<index, index + 1, index + 2, index + 3>>

\* the four entries pushed after the points of a ring
closingIndexes_short(isClosed, startIndex, index) ==
    IF isClosed THEN <<startIndex, startIndex + 1>>
    ELSE <<index - 1, index - 1, index - 1, index - 1>>
closingIndexes(isClosed, startIndex, index) ==
    IF isClosed THEN <<startIndex, startIndex + 1, startIndex + 1, startIndex + 1>>
    ELSE <<index - 1, index - 1, index - 1, index - 1>>

\* the state of one builder call: the five out arrays, the local index, and
\* the error the call has thrown
BuilderState(v, o, ix, tp, tm, index) ==
    [outVertices |-> v, outOrders |-> o, outIndexes |-> ix,
     outTransformedPath |-> tp, outTransformedPathMerc |-> tm, index |-> index,
     error |-> "none"]

\* path3v[j] or pathLonLat[j] is an array of points; on a point, path[0] and
\* path[path.length - 1] are undefined and the first read of one throws
IsRing(path) == path.t = "Array"

\* for (var i = 0; i < path.length; i++) of appendLineData3v
RECURSIVE pointLoop3v(_, _, _, _)
pointLoop3v(path, i, ellipsoid, st) ==
    IF i >= Length(path) THEN st
    ELSE
        LET cur == ToVector3(At(path, i))
            lonLat == cartesianToLonLat(cur)
        IN pointLoop3v(path, i + 1, ellipsoid,
            [st EXCEPT
                !.outTransformedPath =
                    IF ellipsoid THEN Append(@, lonLat) ELSE @,
                !.outTransformedPathMerc =
                    IF ellipsoid THEN Append(@, forwardMercator(lonLat)) ELSE @,
                !.outVertices = @ \o Quad(cur),
                !.outOrders = @ \o ORDERS,
                !.outIndexes = @ \o pointIndexes(st.index),
                !.index = @ + 4])

\* for (var j = 0; j < path3v.length; j++) of appendLineData3v
RECURSIVE ringLoop3v(_, _, _, _, _)
ringLoop3v(path3v, j, isClosed, ellipsoid, st) ==
    IF j >= Len(path3v) THEN st
    ELSE IF ~IsRing(Nth(path3v, j)) THEN [st EXCEPT !.error = "TypeError"]
    ELSE
        LET path == Nth(path3v, j)
            startIndex == st.index
            last == IF isClosed THEN ToVector3(At(path, Length(path) - 1))
                    ELSE Extrapolate(ToVector3(At(path, 0)), ToVector3(At(path, 1)))
            s1 == [st EXCEPT !.outVertices = @ \o Quad(last),
                             !.outOrders = @ \o ORDERS]
            s2 == pointLoop3v(path, 0, ellipsoid, s1)
            first == IF isClosed THEN ToVector3(At(path, 0))
                     ELSE Extrapolate(ToVector3(At(path, Length(path) - 1)),
                                      ToVector3(At(path, Length(path) - 2)))
            s3 == [s2 EXCEPT
                     !.outIndexes = @ \o closingIndexes(isClosed, startIndex, s2.index),
                     !.outVertices = @ \o Quad(first),
                     !.outOrders = @ \o ORDERS]
            s4 == IF j < Len(path3v) - 1
                  THEN [s3 EXCEPT !.index = @ + 8,
                                  !.outIndexes = @ \o <<s3.index + 8, s3.index + 8>>]
                  ELSE s3
        IN ringLoop3v(path3v, j + 1, isClosed, ellipsoid, s4)

appendLineData3v(path3v, isClosed, outV, outO, outIdx, ellipsoid, outLonLat, outMerc) ==
    LET index == firstIndex(outIdx)
    IN ringLoop3v(path3v, 0, isClosed, ellipsoid,
           BuilderState(outV, outO, outIdx \o <<index, index>>, outLonLat, outMerc, index))

\* for (var i = 0; i < path.length; i++) of appendLineDataLonLat
RECURSIVE pointLoopLonLat(_, _, _)
pointLoopLonLat(path, i, st) ==
    IF i >= Length(path) THEN st
    ELSE
        LET cur == At(path, i)
            cartesian == lonLatToCartesian(cur)
        IN pointLoopLonLat(path, i + 1,
            [st EXCEPT
                !.outTransformedPath = Append(@, cartesian),
                !.outTransformedPathMerc = Append(@, forwardMercator(cur)),
                !.outVertices = @ \o Quad(cartesian),
                !.outOrders = @ \o ORDERS,
                !.outIndexes = @ \o pointIndexes(st.index),
                !.index = @ + 4])

\* for (var j = 0; j < pathLonLat.length; j++) of appendLineDataLonLat
RECURSIVE ringLoopLonLat(_, _, _, _)
ringLoopLonLat(pathLonLat, j, isClosed, st) ==
    IF j >= Len(pathLonLat) THEN st
    ELSE IF ~IsRing(Nth(pathLonLat, j)) THEN [st EXCEPT !.error = "TypeError"]
    ELSE
        LET path == Nth(pathLonLat, j)
            startIndex == st.index
            last == IF isClosed THEN lonLatToCartesian(At(path, Length(path) - 1))
                    ELSE Extrapolate(lonLatToCartesian(At(path, 0)),
                                     lonLatToCartesian(At(path, 1)))
            s1 == [st EXCEPT !.outVertices = @ \o Quad(last),
                             !.outOrders = @ \o ORDERS]
            s2 == pointLoopLonLat(path, 0, s1)
            first == IF isClosed THEN lonLatToCartesian(At(path, 0))
                     ELSE Extrapolate(lonLatToCartesian(At(path, Length(path) - 1)),
                                      lonLatToCartesian(At(path, Length(path) - 2)))
            s3 == [s2 EXCEPT
                     !.outIndexes = @ \o closingIndexes(isClosed, startIndex, s2.index),
                     !.outVertices = @ \o Quad(first),
                     !.outOrders = @ \o ORDERS]
            s4 == IF j < Len(pathLonLat) - 1
                  THEN [s3 EXCEPT !.index = @ + 8,
                                  !.outIndexes = @ \o <<s3.index + 8, s3.index + 8>>]
                  ELSE s3
        IN ringLoopLonLat(pathLonLat, j + 1, isClosed, s4)

appendLineDataLonLat(pathLonLat, isClosed, outV, outO, outIdx, outCartesian, outMerc) ==
    LET index == firstIndex(outIdx)
    IN ringLoopLonLat(pathLonLat, 0, isClosed,
           BuilderState(outV, outO, outIdx \o <<index, index>>, outCartesian, outMerc, index))

-----------------------------------------------------------------------------
(* og.Polyline *)

Null == [t |-> "null"]

\* a render node, with an ellipsoid (a planet) or without one
RenderNode(ellipsoid) == [t |-> "RenderNode", ellipsoid |-> ellipsoid]

VERTICES_BUFFER == 0
INDEX_BUFFER == 1

\* fields the buffer callbacks read and no code assigns
_mainBuffer == Null
_orderBuffer == Null
_indexBuffer == Null

\* arr[i] = val on a JavaScript array with i <= arr.length
ArraySet(arr, i, val) ==
    IF i < Len(arr) THEN [arr EXCEPT ![i + 1] = val] ELSE Append(arr, val)

\* v[k++] = x for each x of xs in turn
RECURSIVE WriteAt(_, _, _)
WriteAt(v, k, xs) ==
    IF xs = <<>> THEN v
    ELSE WriteAt(ArraySet(v, k, Head(xs)), k + 1, Tail(xs))

\* the WebGL buffer service of the renderer's handler
createBuffer(g, data, itemSize, numItems) ==
    [gl |-> [buffers |-> g.buffers \cup {g.created + 1}, created |-> g.created + 1],
     buffer |-> [t |-> "WebGLBuffer", id |-> g.created + 1, data |-> data,
                 itemSize |-> itemSize, numItems |-> numItems]]

deleteBuffer(g, buffer) ==
    IF buffer = Null THEN g ELSE [g EXCEPT !.buffers = @ \ {buffer.id}]

\* the outcome of _createData3v / _createDataLonLat: the polyline's arrays
LineData(v, o, ix, p3v, pll, merc, error) ==
    [vertices |-> v, orders |-> o, indexes |-> ix,
     path3v |-> p3v, pathLonLat |-> pll, pathLonLatMerc |-> merc, error |-> error]

\* _clearData, then appendLineData3v into the polyline's arrays
_createData3v(path3v, ellipsoid) ==
    LET r == appendLineData3v(path3v, _closedLine, <<>>, <<>>, <<>>,
                              ellipsoid, _pathLonLat, _pathLonLatMerc)
    IN LineData(r.outVertices, r.outOrders, r.outIndexes,
                _path3v, r.outTransformedPath, r.outTransformedPathMerc, r.error)

\* _clearData, then appendLineDataLonLat into the polyline's arrays; without an
\* ellipsoid the first ring's ellipsoid.lonLatToCartesian throws
_createDataLonLat(pathLonLat, ellipsoid) ==
    IF ~ellipsoid /\ Len(pathLonLat) > 0
    THEN LineData(<<>>, <<>>, <<0, 0>>, _path3v, _pathLonLat, _pathLonLatMerc, "TypeError")
    ELSE
        LET r == appendLineDataLonLat(pathLonLat, _closedLine, <<>>, <<>>, <<>>,
                                      _path3v, _pathLonLatMerc)
        IN LineData(r.outVertices, r.outOrders, r.outIndexes,
                    r.outTransformedPath, _pathLonLat, r.outTransformedPathMerc, r.error)

\* for (var i = 0; i < path.length; i++) of _setEqualPathLonLat
RECURSIVE equalPointLoopLonLat(_, _, _)
equalPointLoopLonLat(path, i, st) ==
    IF i >= Length(path) THEN st
    ELSE
        LET cur == At(path, i)
            cartesian == lonLatToCartesian(cur)
        IN equalPointLoopLonLat(path, i + 1,
            [st EXCEPT
                !.c = ArraySet(@, i, cartesian),
                !.m = ArraySet(@, i, forwardMercator(cur)),
                !.l = ArraySet(@, i, cur),
                !.v = WriteAt(@, st.k, Quad(cartesian)),
                !.k = @ + 12])

\* for (var j = 0; j < pathLonLat.length; j++) of _setEqualPathLonLat
RECURSIVE equalRingLoopLonLat(_, _, _)
equalRingLoopLonLat(pathLonLat, j, st) ==
    IF j >= Len(pathLonLat) THEN st
    ELSE
        LET path == Nth(pathLonLat, j)
            last == IF _closedLine THEN lonLatToCartesian(At(path, Length(path) - 1))
                    ELSE Extrapolate(lonLatToCartesian(At(path, 0)),
                                     lonLatToCartesian(At(path, 1)))
            s1 == [st EXCEPT !.v = WriteAt(@, st.k, Quad(last)), !.k = @ + 12]
            s2 == equalPointLoopLonLat(path, 0, s1)
            first == IF _closedLine THEN lonLatToCartesian(At(path, 0))
                     ELSE Extrapolate(lonLatToCartesian(At(path, Length(path) - 1)),
                                      lonLatToCartesian(At(path, Length(path) - 2)))
            s3 == [s2 EXCEPT !.v = WriteAt(@, s2.k, Quad(first)), !.k = @ + 12]
        IN equalRingLoopLonLat(pathLonLat, j + 1, s3)

\* var v = this._vertices, l = this._pathLonLat, m = this._pathLonLatMerc,
\*     c = this._path3v, k = 0, then the ring loop
_setEqualPathLonLat_skipFirst(pathLonLat) ==
    LET r == equalRingLoopLonLat(pathLonLat, 0,
                 [v |-> _vertices, l |-> _pathLonLat, m |-> _pathLonLatMerc,
                  c |-> _path3v, k |-> 12])
    IN LineData(r.v, _orders, _indexes, r.c, r.l, r.m, "none")
_setEqualPathLonLat(pathLonLat) ==
    LET r == equalRingLoopLonLat(pathLonLat, 0,
                 [v |-> _vertices, l |-> _pathLonLat, m |-> _pathLonLatMerc,
                  c |-> _path3v, k |-> 0])
    IN LineData(r.v, _orders, _indexes, r.c, r.l, r.m, "none")

\* the three buffers of the polyline and the WebGL context, as the buffer
\* callbacks update them
Buffers(g, verticesBuffer, ordersBuffer, indexesBuffer, changedBuffers) ==
    [gl |-> g, verticesBuffer |-> verticesBuffer, ordersBuffer |-> ordersBuffer,
     indexesBuffer |-> indexesBuffer, changedBuffers |-> changedBuffers]

_createVerticesBuffer(b) ==
    LET g == deleteBuffer(b.gl, _mainBuffer)
        c == createBuffer(g, _vertices, 3, Len(_vertices) \div 3)
    IN [b EXCEPT !.gl = c.gl, !.verticesBuffer = c.buffer]

_createIndexBuffer(b) ==
    LET g == deleteBuffer(deleteBuffer(b.gl, _orderBuffer), _indexBuffer)
        o == createBuffer(g, _orders, 1, Len(_orders) \div 2)
        i == createBuffer(o.gl, _indexes, 1, Len(_indexes))
    IN [b EXCEPT !.gl = i.gl, !.ordersBuffer = o.buffer, !.indexesBuffer = i.buffer]

\* _update without if (this._renderNode)
_update_ignoresRenderNode(b) ==
    LET b1 == IF b.changedBuffers[INDEX_BUFFER]
              THEN [_createIndexBuffer(b) EXCEPT !.changedBuffers[INDEX_BUFFER] = FALSE]
              ELSE b
    IN IF b1.changedBuffers[VERTICES_BUFFER]
       THEN [_createVerticesBuffer(b1) EXCEPT !.changedBuffers[VERTICES_BUFFER] = FALSE]
       ELSE b1

\* _update without this._changedBuffers[i] = false
_update_keepFlags(b) ==
    IF _renderNode = Null THEN b
    ELSE
        LET b1 == IF b.changedBuffers[INDEX_BUFFER] THEN _createIndexBuffer(b) ELSE b
        IN IF b1.changedBuffers[VERTICES_BUFFER] THEN _createVerticesBuffer(b1) ELSE b1

\* var i = this._changedBuffers.length; while (i--) ...: the index buffer
\* callback runs first, then the vertices buffer callback
_update(b) ==
    IF _renderNode = Null THEN b
    ELSE
        LET b1 == IF b.changedBuffers[INDEX_BUFFER]
                  THEN [_createIndexBuffer(b) EXCEPT !.changedBuffers[INDEX_BUFFER] = FALSE]
                  ELSE b
            b0 == IF b1.changedBuffers[VERTICES_BUFFER]
                  THEN [_createVerticesBuffer(b1) EXCEPT
                            !.changedBuffers[VERTICES_BUFFER] = FALSE]
                  ELSE b1
        IN b0

\* _deleteBuffers
_deleteBuffers(b) ==
    IF _renderNode = Null THEN b
    ELSE [b EXCEPT
            !.gl = deleteBuffer(deleteBuffer(deleteBuffer(b.gl, b.verticesBuffer),
                                             b.ordersBuffer), b.indexesBuffer),
            !.verticesBuffer = Null, !.ordersBuffer = Null, !.indexesBuffer = Null]

\* the record kept of a call
Call(op, path, forceEqual, equalTopology, error, drawn) ==
    [op |-> op, path |-> path, forceEqual |-> forceEqual,
     equalTopology |-> equalTopology, error |-> error, drawn |-> drawn]

\* the line data a from-scratch build of the path into empty arrays gives
FreshLonLat(pathLonLat) ==
    appendLineDataLonLat(pathLonLat, _closedLine, <<>>, <<>>, <<>>, <<>>, <<>>)

Fresh3v(path3v) ==
    appendLineData3v(path3v, _closedLine, <<>>, <<>>, <<>>, FALSE, <<>>, <<>>)

\* the path has the ring count, per-ring point counts and closure of the
\* current mesh: a from-scratch build gives the index buffer the mesh has
EqualTopology(fresh) ==
    /\ fresh.outIndexes = _indexes
    /\ Len(fresh.outVertices) = Len(_vertices)

\* first point and ring lengths of the paths given to the polyline: one ring,
\* and two rings of other points
PathShapes(isClosed) ==
    IF isClosed THEN {<<0, <<1>>>>, <<1, <<2, 1>>>>}
    ELSE {<<0, <<2>>>>, <<1, <<3, 2>>>>}

\* new og.Polyline({visibility, isClosed}); _refresh marks both buffers changed
PolylineInit ==
    /\ visibility \in BOOLEAN
    /\ _closedLine \in BOOLEAN
    /\ _path3v = <<>>
    /\ _pathLonLat = <<>>
    /\ _pathLonLatMerc = <<>>
    /\ _vertices = <<>>
    /\ _orders = <<>>
    /\ _indexes = <<>>
    /\ _verticesBuffer = Null
    /\ _ordersBuffer = Null
    /\ _indexesBuffer = Null
    /\ _renderNode = Null
    /\ _changedBuffers = [i \in {VERTICES_BUFFER, INDEX_BUFFER} |-> TRUE]
    /\ gl = [buffers |-> {}, created |-> 0]
    /\ lastCall = Call("new", <<>>, FALSE, FALSE, "none", FALSE)
    /\ nUpdates = 0

\* the polyline's arrays after a build or an in-place update
SetLineData(d) ==
    /\ _vertices' = d.vertices
    /\ _orders' = d.orders
    /\ _indexes' = d.indexes
    /\ _path3v' = d.path3v
    /\ _pathLonLat' = d.pathLonLat
    /\ _pathLonLatMerc' = d.pathLonLatMerc

\* setRenderNode: the mesh is built anew on every call
SetRenderNode(renderNode) ==
    /\ nUpdates < MaxUpdates
    /\ nUpdates' = nUpdates + 1
    /\ _renderNode' = renderNode
    /\ LET d == IF Len(_pathLonLat) > 0
                THEN _createDataLonLat(_pathLonLat, renderNode.ellipsoid)
                ELSE _createData3v(_path3v, renderNode.ellipsoid)
       IN /\ SetLineData(d)
          /\ lastCall' = Call("setRenderNode", <<>>, FALSE, FALSE, d.error, FALSE)
    /\ UNCHANGED <<visibility, _closedLine, _verticesBuffer, _ordersBuffer,
                   _indexesBuffer, _changedBuffers, gl>>
    /\ UNCHANGED notPolylineVars

SetPathLonLat(pathLonLat, forceEqual) ==
    /\ IF _renderNode # Null /\ _renderNode.ellipsoid
       THEN IF forceEqual
            THEN /\ nUpdates < MaxUpdates
                 /\ SetLineData(_setEqualPathLonLat(pathLonLat))
                 /\ _changedBuffers' = [_changedBuffers EXCEPT ![VERTICES_BUFFER] = TRUE]
                 /\ nUpdates' = nUpdates + 1
            ELSE /\ nUpdates < MaxUpdates
                 /\ SetLineData(_createDataLonLat(pathLonLat, TRUE))
                 /\ _changedBuffers' = [_changedBuffers EXCEPT ![VERTICES_BUFFER] = TRUE,
                                                               ![INDEX_BUFFER] = TRUE]
                 /\ nUpdates' = nUpdates + 1
       ELSE /\ _pathLonLat' = pathLonLat
            /\ UNCHANGED <<_path3v, _pathLonLatMerc, _vertices, _orders, _indexes,
                           _changedBuffers, nUpdates>>
    /\ lastCall' = Call("setPathLonLat", pathLonLat, forceEqual,
                        EqualTopology(FreshLonLat(pathLonLat)), "none", FALSE)
    /\ UNCHANGED <<visibility, _closedLine, _verticesBuffer, _ordersBuffer,
                   _indexesBuffer, _renderNode, gl>>
    /\ UNCHANGED notPolylineVars

\* with forceEqual the call reads pathLonLat, which setPath3v does not declare
SetPath3v(path3v, forceEqual) ==
    /\ IF _renderNode # Null
       THEN IF forceEqual
            THEN /\ lastCall' = Call("setPath3v", path3v, forceEqual,
                                     EqualTopology(Fresh3v(path3v)), "ReferenceError", FALSE)
                 /\ UNCHANGED <<_path3v, _pathLonLat, _pathLonLatMerc, _vertices, _orders,
                                _indexes, _changedBuffers, nUpdates>>
            ELSE /\ nUpdates < MaxUpdates
                 /\ SetLineData(_createData3v(path3v, _renderNode.ellipsoid))
                 /\ _changedBuffers' = [_changedBuffers EXCEPT ![VERTICES_BUFFER] = TRUE,
                                                               ![INDEX_BUFFER] = TRUE]
                 /\ nUpdates' = nUpdates + 1
                 /\ lastCall' = Call("setPath3v", path3v, forceEqual,
                                     EqualTopology(Fresh3v(path3v)), "none", FALSE)
       ELSE /\ _path3v' = path3v
            /\ lastCall' = Call("setPath3v", path3v, forceEqual,
                                EqualTopology(Fresh3v(path3v)), "none", FALSE)
            /\ UNCHANGED <<_pathLonLat, _pathLonLatMerc, _vertices, _orders, _indexes,
                           _changedBuffers, nUpdates>>
    /\ UNCHANGED <<visibility, _closedLine, _verticesBuffer, _ordersBuffer,
                   _indexesBuffer, _renderNode, gl>>
    /\ UNCHANGED notPolylineVars

\* draw: _update, then the draw call, which reads the render node and the
\* itemSize / numItems of the three buffers
Draw ==
    /\ IF visibility /\ Len(_path3v) > 0
       THEN LET b == _update(Buffers(gl, _verticesBuffer, _ordersBuffer,
                                     _indexesBuffer, _changedBuffers))
                thrown == \/ _renderNode = Null
                          \/ b.verticesBuffer = Null
                          \/ b.ordersBuffer = Null
                          \/ b.indexesBuffer = Null
            IN /\ gl' = b.gl
               /\ _verticesBuffer' = b.verticesBuffer
               /\ _ordersBuffer' = b.ordersBuffer
               /\ _indexesBuffer' = b.indexesBuffer
               /\ _changedBuffers' = b.changedBuffers
               /\ lastCall' = Call("draw", <<>>, FALSE, FALSE,
                                   IF thrown THEN "TypeError" ELSE "none", ~thrown)
       ELSE /\ lastCall' = Call("draw", <<>>, FALSE, FALSE, "none", FALSE)
            /\ UNCHANGED <<gl, _verticesBuffer, _ordersBuffer, _indexesBuffer,
                           _changedBuffers>>
    /\ UNCHANGED <<visibility, _closedLine, _path3v, _pathLonLat, _pathLonLatMerc,
                   _vertices, _orders, _indexes, _renderNode, nUpdates>>
    /\ UNCHANGED notPolylineVars

\* clear: empties the line data and deletes the buffers
Clear ==
    /\ _vertices' = <<>>
    /\ _orders' = <<>>
    /\ _indexes' = <<>>
    /\ LET b == _deleteBuffers(Buffers(gl, _verticesBuffer, _ordersBuffer,
                                       _indexesBuffer, _changedBuffers))
       IN /\ gl' = b.gl
          /\ _verticesBuffer' = b.verticesBuffer
          /\ _ordersBuffer' = b.ordersBuffer
          /\ _indexesBuffer' = b.indexesBuffer
    /\ lastCall' = Call("clear", <<>>, FALSE, FALSE, "none", FALSE)
    /\ UNCHANGED <<visibility, _closedLine, _path3v, _pathLonLat, _pathLonLatMerc,
                   _renderNode, _changedBuffers, nUpdates>>
    /\ UNCHANGED notPolylineVars

\* remove: this._entity = null, clear(); this._handler is null on every
\* polyline (no method assigns it)
PolylineRemove ==
    /\ _vertices' = <<>>
    /\ _orders' = <<>>
    /\ _indexes' = <<>>
    /\ LET b == _deleteBuffers(Buffers(gl, _verticesBuffer, _ordersBuffer,
                                       _indexesBuffer, _changedBuffers))
       IN /\ gl' = b.gl
          /\ _verticesBuffer' = b.verticesBuffer
          /\ _ordersBuffer' = b.ordersBuffer
          /\ _indexesBuffer' = b.indexesBuffer
    /\ lastCall' = Call("remove", <<>>, FALSE, FALSE, "none", FALSE)
    /\ UNCHANGED <<visibility, _closedLine, _path3v, _pathLonLat, _pathLonLatMerc,
                   _renderNode, _changedBuffers, nUpdates>>
    /\ UNCHANGED notPolylineVars

\* setVisibility(visibility)
SetVisibility(v) ==
    /\ visibility' = v
    /\ lastCall' = Call("setVisibility", <<>>, FALSE, FALSE, "none", FALSE)
    /\ UNCHANGED <<_closedLine, _path3v, _pathLonLat, _pathLonLatMerc, _vertices,
                   _orders, _indexes, _verticesBuffer, _ordersBuffer, _indexesBuffer,
                   _renderNode, _changedBuffers, gl, nUpdates>>
    /\ UNCHANGED notPolylineVars

\* if (this.visibility && this._path3v.length) of drawPicking
Drawable_ignoresVisibility == Len(_path3v) > 0
Drawable == visibility /\ Len(_path3v) > 0

\* drawPicking: no _update; the draw call reads the render node and the
\* itemSize / numItems of the three buffers
DrawPicking ==
    /\ IF Drawable
       THEN LET thrown == \/ _renderNode = Null
                          \/ _verticesBuffer = Null
                          \/ _ordersBuffer = Null
                          \/ _indexesBuffer = Null
            IN lastCall' = Call("drawPicking", <<>>, FALSE, FALSE,
                                IF thrown THEN "TypeError" ELSE "none", ~thrown)
       ELSE lastCall' = Call("drawPicking", <<>>, FALSE, FALSE, "none", FALSE)
    /\ UNCHANGED <<visibility, _closedLine, _path3v, _pathLonLat, _pathLonLatMerc,
                   _vertices, _orders, _indexes, _verticesBuffer, _ordersBuffer,
                   _indexesBuffer, _renderNode, _changedBuffers, gl, nUpdates>>
    /\ UNCHANGED notPolylineVars

CallSetRenderNode == \E ellipsoid \in BOOLEAN : SetRenderNode(RenderNode(ellipsoid))

CallSetPathLonLat ==
    \E shape \in PathShapes(_closedLine), forceEqual \in BOOLEAN :
        SetPathLonLat(PathLonLat(shape[1], shape[2]), forceEqual)

CallSetPath3v ==
    \E shape \in PathShapes(_closedLine), forceEqual \in BOOLEAN :
        SetPath3v(Path3v(shape[1], shape[2]), forceEqual)

CallSetVisibility == \E v \in BOOLEAN : SetVisibility(v)

Next ==
    \/ CallSetRenderNode
    \/ CallSetPathLonLat
    \/ CallSetPath3v
    \/ CallSetVisibility
    \/ Draw
    \/ DrawPicking
    \/ Clear
    \/ PolylineRemove

-----------------------------------------------------------------------------
(* The builder under test: any sequence of calls of the two static         *)
(* builders on the same out arrays.                                        *)

\* the cartesian points a ring stands for, in path order
RingPoints(kind, path) ==
    [i \in 1..Length(path) |->
        IF kind = "3v" THEN ToVector3(At(path, i - 1))
        ELSE lonLatToCartesian(At(path, i - 1))]

\* the buffers after the first j rings of a call have been appended
AfterRings(kind, path, j, isClosed, ellipsoid) ==
    IF j = 0
    THEN BuilderState(outVertices, outOrders, outIndexes,
                      outTransformedPath, outTransformedPathMerc, 0)
    ELSE IF kind = "3v"
    THEN appendLineData3v(SubSeq(path, 1, j), isClosed, outVertices, outOrders,
             outIndexes, ellipsoid, outTransformedPath, outTransformedPathMerc)
    ELSE appendLineDataLonLat(SubSeq(path, 1, j), isClosed, outVertices, outOrders,
             outIndexes, outTransformedPath, outTransformedPathMerc)

\* one log entry per ring of a call: the ring, the lengths of outOrders and
\* outIndexes at the moment the ring (with its two leading entries) starts, and
\* the length of outIndexes when the ring's last entry has been pushed
RingEntries(kind, path, isClosed, ellipsoid) ==
    [j \in 1..Len(path) |->
        [kind |-> kind,
         isClosed |-> isClosed,
         first |-> (j = 1),
         points |-> RingPoints(kind, path[j]),
         ordersBefore |-> Len(AfterRings(kind, path, j - 1, isClosed, ellipsoid).outOrders),
         indexesBefore |-> Len(AfterRings(kind, path, j - 1, isClosed, ellipsoid).outIndexes),
         indexesAfter |-> Len(AfterRings(kind, path, j, isClosed, ellipsoid).outIndexes)]]

BuilderInit ==
    /\ outVertices = <<>>
    /\ outOrders = <<>>
    /\ outIndexes = <<>>
    /\ outTransformedPath = <<>>
    /\ outTransformedPathMerc = <<>>
    /\ ringLog = <<>>

CallAppendLineData3v ==
    \E isClosed \in BOOLEAN, ellipsoid \in BOOLEAN, s \in Starts :
    \E lens \in LenLists(isClosed, 1, MaxTotalRings - Len(ringLog)) :
        LET path3v == Path3v(s, lens)
            r == appendLineData3v(path3v, isClosed, outVertices, outOrders, outIndexes,
                                  ellipsoid, outTransformedPath, outTransformedPathMerc)
        IN /\ outVertices' = r.outVertices
           /\ outOrders' = r.outOrders
           /\ outIndexes' = r.outIndexes
           /\ outTransformedPath' = r.outTransformedPath
           /\ outTransformedPathMerc' = r.outTransformedPathMerc
           /\ ringLog' = ringLog \o RingEntries("3v", path3v, isClosed, ellipsoid)
           /\ UNCHANGED notBuilderVars

CallAppendLineDataLonLat ==
    \E isClosed \in BOOLEAN, s \in Starts :
    \E lens \in LenLists(isClosed, 1, MaxTotalRings - Len(ringLog)) :
        LET pathLonLat == PathLonLat(s, lens)
            r == appendLineDataLonLat(pathLonLat, isClosed, outVertices, outOrders,
                     outIndexes, outTransformedPath, outTransformedPathMerc)
        IN /\ outVertices' = r.outVertices
           /\ outOrders' = r.outOrders
           /\ outIndexes' = r.outIndexes
           /\ outTransformedPath' = r.outTransformedPath
           /\ outTransformedPathMerc' = r.outTransformedPathMerc
           /\ ringLog' = ringLog \o RingEntries("LonLat", pathLonLat, isClosed, TRUE)
           /\ UNCHANGED notBuilderVars

BuilderNext ==
    \/ CallAppendLineData3v
    \/ CallAppendLineDataLonLat

-----------------------------------------------------------------------------
(* og.TextureAtlasNode.  og.Rectangle is not part of the sources at hand: a  *)
(* rectangle is its four edges, its width and height are their differences, *)
(* and fit(w, h) holds when the rectangle is exactly w wide and h high.      *)

Rectangle(left, top, right, bottom) ==
    [t |-> "Rectangle", left |-> left, top |-> top, right |-> right, bottom |-> bottom]

getWidth(rc) == rc.right - rc.left

getHeight(rc) == rc.bottom - rc.top

fit(rc, w, h) == getWidth(rc) = w /\ getHeight(rc) = h

Undefined == [t |-> "undefined"]

\* an image: its size and the slot of the node table its user gave it
Image(width, height, nodeIndex) ==
    [t |-> "Image", width |-> width, height |-> height, __nodeIndex |-> nodeIndex]

BORDER_SIZE == 4

\* img.width + og.TextureAtlas.BORDER_SIZE, img.height + og.TextureAtlas.BORDER_SIZE
Padded_noBorder(size) == size
Padded(size) == size + BORDER_SIZE

\* new og.TextureAtlasNode(rect)
TextureAtlasNode(rect) ==
    [t |-> "TextureAtlasNode", childNodes |-> Null, image |-> Null, rect |-> rect,
     texCoords |-> [i \in 1..8 |-> Undefined]]

\* if (w > rc.getWidth() || h > rc.getHeight()) return null
TooLarge(rc, w, h) == w > getWidth(rc) \/ h > getHeight(rc)

\* the rectangles of childNodes[0] and childNodes[1] of a leaf that is split
SplitRects_overlapping(rc, w, h) ==
    IF getWidth(rc) - w > getHeight(rc) - h
    THEN <<Rectangle(rc.left, rc.top, rc.left + w, rc.bottom),
           Rectangle(rc.left, rc.top, rc.right, rc.bottom)>>
    ELSE <<Rectangle(rc.left, rc.top, rc.right, rc.top + h),
           Rectangle(rc.left, rc.top, rc.right, rc.bottom)>>
SplitRects_halves(rc, w, h) ==
    LET half(total, size) == IF total \div 2 > size THEN total \div 2 ELSE size
    IN IF getWidth(rc) - w > getHeight(rc) - h
       THEN <<Rectangle(rc.left, rc.top, rc.left + half(getWidth(rc), w), rc.bottom),
              Rectangle(rc.left + half(getWidth(rc), w), rc.top, rc.right, rc.bottom)>>
       ELSE <<Rectangle(rc.left, rc.top, rc.right, rc.top + half(getHeight(rc), h)),
              Rectangle(rc.left, rc.top + half(getHeight(rc), h), rc.right, rc.bottom)>>
SplitRects_swapped(rc, w, h) ==
    IF getWidth(rc) - w > getHeight(rc) - h
    THEN <<Rectangle(rc.left + w, rc.top, rc.right, rc.bottom),
           Rectangle(rc.left, rc.top, rc.left + w, rc.bottom)>>
    ELSE <<Rectangle(rc.left, rc.top + h, rc.right, rc.bottom),
           Rectangle(rc.left, rc.top, rc.right, rc.top + h)>>
SplitRects_tieVertical(rc, w, h) ==
    IF getWidth(rc) - w >= getHeight(rc) - h
    THEN <<Rectangle(rc.left, rc.top, rc.left + w, rc.bottom),
           Rectangle(rc.left + w, rc.top, rc.right, rc.bottom)>>
    ELSE <<Rectangle(rc.left, rc.top, rc.right, rc.top + h),
           Rectangle(rc.left, rc.top + h, rc.right, rc.bottom)>>
SplitRects(rc, w, h) ==
    LET dw == getWidth(rc) - w
        dh == getHeight(rc) - h
    IN IF dw > dh
       THEN <<Rectangle(rc.left, rc.top, rc.left + w, rc.bottom),
              Rectangle(rc.left + w, rc.top, rc.right, rc.bottom)>>
       ELSE <<Rectangle(rc.left, rc.top, rc.right, rc.top + h),
              Rectangle(rc.left, rc.top + h, rc.right, rc.bottom)>>

\* the outcome of insert: the tree as the call leaves it and the node returned
Inserted(tree, node) == [tree |-> tree, node |-> node]

\* og.TextureAtlasNode.prototype.insert, called on the node this
RECURSIVE insert(_, _)
insert(this, img) ==
    IF this.childNodes # Null
    THEN LET first == insert(At(this.childNodes, 0), img)
         IN IF first.node # Null
            THEN Inserted([this EXCEPT !.childNodes =
                              ArrayOf(<<first.tree, At(this.childNodes, 1)>>)],
                          first.node)
            ELSE LET second == insert(At(this.childNodes, 1), img)
                 IN Inserted([this EXCEPT !.childNodes =
                                  ArrayOf(<<first.tree, second.tree>>)],
                             second.node)
    ELSE IF this.image # Null THEN Inserted(this, Null)
    ELSE LET rc == this.rect
             w == Padded(img.width)
             h == Padded(img.height)
         IN IF TooLarge(rc, w, h) THEN Inserted(this, Null)
            ELSE IF fit(rc, w, h)
            THEN Inserted([this EXCEPT !.image = img], [this EXCEPT !.image = img])
            ELSE LET rects == SplitRects(rc, w, h)
                     placed == insert(TextureAtlasNode(rects[1]), img)
                 IN Inserted([this EXCEPT !.childNodes =
                                  ArrayOf(<<placed.tree, TextureAtlasNode(rects[2])>>)],
                             placed.node)

\* the nodes of a tree without children
RECURSIVE Leaves(_)
Leaves(node) ==
    IF node.childNodes = Null THEN {node}
    ELSE Leaves(At(node.childNodes, 0)) \cup Leaves(At(node.childNodes, 1))

\* the leaves that hold an image
ImageLeaves(node) == {leaf \in Leaves(node) : leaf.image # Null}

-----------------------------------------------------------------------------
(* og.TextureAtlas *)

\* new og.ImageCanvas(1024, 1024)
CANVAS_SIZE == 1024

\* a canvas: its size and the images drawn on it since it was last cleared
ImageCanvas(width, height, drawn) ==
    [t |-> "ImageCanvas", width |-> width, height |-> height, drawn |-> drawn]

\* canvas.fillEmpty()
clearCanvas(cv) == [cv EXCEPT !.drawn = <<>>]

\* canvas.drawImage(image, x, y)
drawImage(cv, image, x, y) ==
    [cv EXCEPT !.drawn = Append(@, [image |-> image, x |-> x, y |-> y])]

\* a / b of two integers, kept as the fraction
Div(a, b) == [num |-> a, den |-> b]

\* Math.round(x * 0.5) of an integer x >= 0
RoundHalf(x) == (x + 1) \div 2

\* function (a, b) { return a.width - b.width || a.height - b.height; }
compare(a, b) ==
    IF a.width - b.width # 0 THEN a.width - b.width ELSE a.height - b.height

\* im.sort(compare): elements that compare equal keep their order
RECURSIVE InsertSorted(_, _)
InsertSorted(sorted, a) ==
    IF sorted = <<>> THEN <<a>>
    ELSE IF compare(a, sorted[Len(sorted)]) >= 0 THEN Append(sorted, a)
    ELSE Append(InsertSorted(SubSeq(sorted, 1, Len(sorted) - 1), a), sorted[Len(sorted)])

\* the images in the order they were added
sort_none(im) == im
RECURSIVE sort(_)
sort(im) ==
    IF im = <<>> THEN <<>>
    ELSE InsertSorted(sort(SubSeq(im, 1, Len(im) - 1)), im[Len(im)])

\* the corners of the rectangle without the inset
TexCoords_noInset(r, bs, w, h) ==
    <<Div(r.left, w), Div(r.top, h),
      Div(r.left, w), Div(r.bottom, h),
      Div(r.right, w), Div(r.top, h),
      Div(r.right, w), Div(r.bottom, h)>>

\* tc[0..7] of a node with rectangle r on a canvas w wide and h high
TexCoords(r, bs, w, h) ==
    <<Div(r.left + bs, w), Div(r.top + bs, h),
      Div(r.left + bs, w), Div(r.bottom - bs, h),
      Div(r.right - bs, w), Div(r.top + bs, h),
      Div(r.right - bs, w), Div(r.bottom - bs, h)>>

\* node.texCoords = tc on the node of the tree that has the rectangle rect
RECURSIVE SetTexCoords(_, _, _)
SetTexCoords(node, rect, tc) ==
    IF node.childNodes = Null
    THEN IF node.rect = rect THEN [node EXCEPT !.texCoords = tc] ELSE node
    ELSE [node EXCEPT !.childNodes =
             ArrayOf(<<SetTexCoords(At(node.childNodes, 0), rect, tc),
                       SetTexCoords(At(node.childNodes, 1), rect, tc)>>)]

\* newNodes[index] = node on the sparse array newNodes
NodesSet(newNodes, index, node) ==
    [i \in DOMAIN newNodes \cup {index} |-> IF i = index THEN node ELSE newNodes[i]]

\* the state of _makeAtlas: the tree, the canvas, newNodes, and the error thrown
AtlasState(btree, cv, newNodes, error) ==
    [btree |-> btree, canvas |-> cv, nodes |-> newNodes, error |-> error]

\* for (var i = 0; i < im.length; i++) of _makeAtlas; when insert returns
\* null the read of node.rect throws
RECURSIVE placeLoop(_, _, _)
placeLoop(im, i, st) ==
    IF i >= Len(im) THEN st
    ELSE
        LET placed == insert(st.btree, Nth(im, i))
            node == placed.node
        IN IF node = Null
           THEN AtlasState(placed.tree, st.canvas, st.nodes, "TypeError")
           ELSE
               LET r == node.rect
                   bs == RoundHalf(BORDER_SIZE)
                   tc == TexCoords(r, bs, st.canvas.width, st.canvas.height)
               IN placeLoop(im, i + 1,
                      AtlasState(SetTexCoords(placed.tree, r, tc),
                                 drawImage(st.canvas, node.image, r.left + bs, r.top + bs),
                                 NodesSet(st.nodes, node.image.__nodeIndex,
                                          [node EXCEPT !.texCoords = tc]),
                                 "none"))

\* og.TextureAtlas.prototype._makeAtlas; this.nodes is assigned after the loop
_makeAtlas_keepTree(images, cv, btree, oldNodes) ==
    LET start == IF btree = Null
                 THEN TextureAtlasNode(Rectangle(0, 0, cv.width, cv.height))
                 ELSE btree
        st == placeLoop(sort(images), 0, AtlasState(start, clearCanvas(cv), <<>>, "none"))
    IN IF st.error = "none" THEN st ELSE [st EXCEPT !.nodes = oldNodes]
_makeAtlas(images, cv, btree, oldNodes) ==
    LET st == placeLoop(sort(images), 0,
                  AtlasState(TextureAtlasNode(Rectangle(0, 0, cv.width, cv.height)),
                             clearCanvas(cv), <<>>, "none"))
    IN IF st.error = "none" THEN st ELSE [st EXCEPT !.nodes = oldNodes]

\* the handler a texture atlas is assigned to, and its texture service
Handler == [t |-> "Handler"]

createTexture_mm(tx, cv) ==
    [textures |-> [live |-> tx.live \cup {tx.created + 1}, created |-> tx.created + 1],
     texture |-> [t |-> "WebGLTexture", id |-> tx.created + 1, image |-> cv.drawn]]

deleteTexture(tx, tex) ==
    IF tex = Null THEN tx ELSE [tx EXCEPT !.live = @ \ {tex.id}]

\* the record kept of an addImage call
Added(image, added, error) ==
    [op |-> "addImage", image |-> image, added |-> added, error |-> error]

\* the images given to the atlas: width and height
AtlasImageSizes ==
    {<<10, 10>>, <<50, 50>>, <<200, 200>>, <<600, 600>>, <<50, 10>>, <<0, 10>>}

\* new og.TextureAtlas()
AtlasInit ==
    /\ canvas = clearCanvas(ImageCanvas(CANVAS_SIZE, CANVAS_SIZE, <<>>))
    /\ _images = <<>>
    /\ nodes = <<>>
    /\ _btree = Null
    /\ _handler = Null
    /\ texture = Null
    /\ textures = [live |-> {}, created |-> 0]
    /\ lastAdd = [op |-> "new", image |-> Null, added |-> FALSE, error |-> "none"]

AssignHandler ==
    /\ _handler' = Handler
    /\ UNCHANGED <<canvas, _images, nodes, _btree, texture, textures, lastAdd>>
    /\ UNCHANGED notAtlasVars

\* addImage: _images.push, _makeAtlas, makeTexture; an error thrown by
\* _makeAtlas leaves makeTexture undone
AddImage(image) ==
    /\ IF ~(image.width # 0 /\ image.height # 0)
       THEN /\ lastAdd' = Added(image, FALSE, "none")
            /\ UNCHANGED <<canvas, _images, nodes, _btree, texture, textures>>
       ELSE LET st == _makeAtlas(Append(_images, image), canvas, _btree, nodes)
            IN /\ _images' = Append(_images, image)
               /\ _btree' = st.btree
               /\ canvas' = st.canvas
               /\ nodes' = st.nodes
               /\ lastAdd' = Added(image, TRUE, st.error)
               /\ IF st.error = "none" /\ _handler # Null
                  THEN LET made == createTexture_mm(deleteTexture(textures, texture),
                                                    st.canvas)
                       IN texture' = made.texture /\ textures' = made.textures
                  ELSE UNCHANGED <<texture, textures>>
    /\ UNCHANGED _handler
    /\ UNCHANGED notAtlasVars

CallAddImage ==
    \E size \in AtlasImageSizes :
        /\ Len(_images) < MaxImages
        /\ AddImage(Image(size[1], size[2], Len(_images)))

\* makeTexture, called on its own: with a handler the texture is deleted and
\* one is created from the canvas as it is
MakeTexture ==
    /\ textures.created < MaxTextures
    /\ IF _handler # Null
       THEN LET made == createTexture_mm(deleteTexture(textures, texture), canvas)
            IN texture' = made.texture /\ textures' = made.textures
       ELSE UNCHANGED <<texture, textures>>
    /\ lastAdd' = [op |-> "makeTexture", image |-> Null, added |-> FALSE, error |-> "none"]
    /\ UNCHANGED <<canvas, _images, nodes, _btree, _handler>>
    /\ UNCHANGED notAtlasVars

\* clearCanvas, called on its own: the images and the tree stay
ClearCanvas ==
    /\ canvas' = clearCanvas(canvas)
    /\ lastAdd' = [op |-> "clearCanvas", image |-> Null, added |-> FALSE, error |-> "none"]
    /\ UNCHANGED <<_images, nodes, _btree, _handler, texture, textures>>
    /\ UNCHANGED notAtlasVars

AtlasNext ==
    \/ AssignHandler
    \/ CallAddImage
    \/ MakeTexture
    \/ ClearCanvas

-----------------------------------------------------------------------------
(* The tree under test: insert called on the root of a tree over a canvas   *)
(* of 100 by 100, image after image.                                        *)

CanvasRect == Rectangle(0, 0, 100, 100)

\* widths and heights of the images inserted
NodeSizes == {2, 3, 90, 96}

NodeInit ==
    /\ root = TextureAtlasNode(CanvasRect)
    /\ insertLog = <<>>

CallInsert ==
    \E width \in NodeSizes, height \in NodeSizes :
        /\ Len(insertLog) < MaxInserts
        /\ LET img == Image(width, height, Len(insertLog))
               placed == insert(root, img)
           IN /\ root' = placed.tree
              /\ insertLog' = Append(insertLog, [img |-> img, node |-> placed.node])
        /\ UNCHANGED notNodeVars

NodeNext == CallInsert

-----------------------------------------------------------------------------
(* Layer: addTo and remove *)

\* this._id = Layer.__layersCounter++ of the layers constructed
LayerIds == {0, 1}

\* the planets a layer is added to
Planets == {[t |-> "Planet", name |-> n] : n \in {"planetA", "planetB"}}

\* the first i < list.length with list[i]._id === lid, or -1
RECURSIVE findLayer(_, _, _)
findLayer(list, i, lid) ==
    IF i >= Len(list) THEN -1
    ELSE IF Nth(list, i) = lid THEN i
    ELSE findLayer(list, i + 1, lid)

\* list.splice(i, 1)
splice1(list, i) == SubSeq(list, 1, i) \o SubSeq(list, i + 2, Len(list))

LayerCall(op, layer, planet, returned) ==
    [op |-> op, layer |-> layer, planet |-> planet, returned |-> returned]

\* the layers are constructed with _planet = null; the planets have no layers
LayerInit ==
    /\ _planet = [l \in LayerIds |-> Null]
    /\ layers = [p \in Planets |-> <<>>]
    /\ lastLayerCall = LayerCall("new", Null, Null, Undefined)

\* addTo(planet): _assignPlanet
AddTo(layer, planet) ==
    /\ layers' = [layers EXCEPT ![planet] = Append(@, layer)]
    /\ _planet' = [_planet EXCEPT ![layer] = planet]
    /\ lastLayerCall' = LayerCall("addTo", layer, planet, Undefined)
    /\ UNCHANGED notLayerVars

\* remove(): the first entry of p.layers with the id of the layer is spliced
\* out and _planet is set to null; lastLayerCall.planet is p
Remove(layer) ==
    /\ LET p == _planet[layer]
           i == IF p = Null THEN -1 ELSE findLayer(layers[p], 0, layer)
       IN /\ IF p # Null /\ i >= 0
             THEN /\ layers' = [layers EXCEPT ![p] = splice1(@, i)]
                  /\ _planet' = [_planet EXCEPT ![layer] = Null]
             ELSE UNCHANGED <<_planet, layers>>
          /\ lastLayerCall' = LayerCall("remove", layer, p, layer)
    /\ UNCHANGED notLayerVars

CallAddTo ==
    \E layer \in LayerIds, planet \in Planets :
        /\ Len(layers[planet]) < MaxLayers
        /\ AddTo(layer, planet)

CallRemove == \E layer \in LayerIds : Remove(layer)

LayerNext == CallAddTo \/ CallRemove

-----------------------------------------------------------------------------
(* Specifications: the static builders called on shared out arrays, and the *)
(* life of one polyline.                                                    *)

\* the out arrays are empty, the polyline and the atlas are newly constructed,
\* the tree under test is one empty node
Init == BuilderInit /\ PolylineInit /\ AtlasInit /\ NodeInit /\ LayerInit

SpecBuilder == Init /\ [][BuilderNext]_vars

Spec == Init /\ [][Next]_vars

\* the atlas and the tree under test, next to one polyline that is left alone
InitAtlas == Init /\ visibility /\ ~_closedLine

SpecAtlas == InitAtlas /\ [][AtlasNext]_vars

SpecNode == InitAtlas /\ [][NodeNext]_vars

\* addTo and remove on the layers
SpecLayer == InitAtlas /\ [][LayerNext]_vars

-----------------------------------------------------------------------------
(* Properties of the static builders (SpecBuilder) *)

\* position of vertex number v (0-based) of outVertices
VertexAt(v) ==
    <<outVertices[3 * v + 1], outVertices[3 * v + 2], outVertices[3 * v + 3]>>

XYZ(p) == <<p.x, p.y, p.z>>

RingLen(k) == Len(ringLog[k].points)

\* number of order entries once ring k is complete
OrdersAfter(k) ==
    IF k < Len(ringLog) THEN ringLog[k + 1].ordersBefore ELSE Len(outOrders)

\* C1: every ring of n points appended by appendLineData3v or
\* appendLineDataLonLat, open or closed, emits exactly n+2 logical points, each
\* as 4 identical positions tagged 1, -1, 2, -2 in that order; hence
\* len(outOrders) = len(outVertices)/3 after any sequence of appends, and both
\* are 4*(n+2) for a single open path of n >= 2 points built into empty buffers.
C1_FourCopiesPerPoint ==
    /\ 3 * Len(outOrders) = Len(outVertices)
    /\ \A k \in 1..Len(ringLog) :
        /\ OrdersAfter(k) - ringLog[k].ordersBefore = 4 * (RingLen(k) + 2)
        /\ \A g \in 0..(RingLen(k) + 1) :
            LET v == ringLog[k].ordersBefore + 4 * g
            IN /\ outOrders[v + 1] = 1
               /\ outOrders[v + 2] = -1
               /\ outOrders[v + 3] = 2
               /\ outOrders[v + 4] = -2
               /\ \A c \in 1..3 : VertexAt(v + c) = VertexAt(v)
    /\ (Len(ringLog) = 1 /\ ~ringLog[1].isClosed /\ ringLog[1].ordersBefore = 0)
        => /\ RingLen(1) >= 2
           /\ Len(outOrders) = 4 * (RingLen(1) + 2)
           /\ Len(outVertices) = 3 * 4 * (RingLen(1) + 2)

C1_Witness ==
    /\ Len(ringLog) = 2
    /\ ringLog[1].kind = "3v" /\ ~ringLog[1].isClosed /\ RingLen(1) = 3
    /\ ringLog[2].kind = "LonLat" /\ ringLog[2].isClosed
    /\ Len(outOrders) = 4 * (3 + 2) + 4 * (RingLen(2) + 2)

\* C2: for every ring p0..p(n-1) built by appendLineData3v the first vertex
\* group is p(n-1) when closed and 2*p0 - p1 when open, the last vertex group is
\* p0 when closed and 2*p(n-1) - p(n-2) when open, and the n groups in between
\* are p0..p(n-1) in path order.
C2_PhantomPoints ==
    \A k \in 1..Len(ringLog) :
        ringLog[k].kind = "3v" =>
            LET p == ringLog[k].points
                n == Len(p)
                base == ringLog[k].ordersBefore
                lastGroup == base + 4 * (n + 1)
            IN /\ VertexAt(base) =
                    IF ringLog[k].isClosed THEN XYZ(p[n])
                    ELSE <<2 * p[1].x - p[2].x, 2 * p[1].y - p[2].y, 2 * p[1].z - p[2].z>>
               /\ VertexAt(lastGroup) =
                    IF ringLog[k].isClosed THEN XYZ(p[1])
                    ELSE <<2 * p[n].x - p[n - 1].x, 2 * p[n].y - p[n - 1].y,
                           2 * p[n].z - p[n - 1].z>>
               /\ \A i \in 1..n : VertexAt(base + 4 * i) = XYZ(p[i])

C2_Witness ==
    /\ Len(ringLog) = 2
    /\ ringLog[1].kind = "3v" /\ ~ringLog[1].isClosed /\ RingLen(1) = 3
    /\ ringLog[2].kind = "3v" /\ ringLog[2].isClosed /\ RingLen(2) = 2
    /\ VertexAt(0) # VertexAt(4)
    /\ VertexAt(ringLog[2].ordersBefore) = VertexAt(ringLog[2].ordersBefore + 8)

\* number of index entries ring k accounts for: its two leading entries, the
\* entries of its points and its connecting entries
IndexEntries(k) == ringLog[k].indexesAfter - ringLog[k].indexesBefore

\* C3 as stated: a closed ring of n points emits one pair (two entries) fewer
\* connecting indices than an open path of the same n points.
C3_ClosedEmitsTwoFewer ==
    \A a, b \in 1..Len(ringLog) :
        (RingLen(a) = RingLen(b) /\ ringLog[a].isClosed /\ ~ringLog[b].isClosed)
            => IndexEntries(a) = IndexEntries(b) - 2

\* C3 amended: the number of index entries emitted for a ring depends on its
\* point count only: 2 leading entries, 4n sequential entries and 4 connecting
\* entries, for a closed ring as for an open path of the same n points.
C3_IndexCountIgnoresClosure ==
    /\ \A k \in 1..Len(ringLog) : IndexEntries(k) = 2 + 4 * RingLen(k) + 4
    /\ \A a, b \in 1..Len(ringLog) :
        RingLen(a) = RingLen(b) => IndexEntries(a) = IndexEntries(b)
    /\ (ringLog # <<>>) => ringLog[Len(ringLog)].indexesAfter = Len(outIndexes)

C3_Witness ==
    /\ Len(ringLog) = 2
    /\ RingLen(1) = RingLen(2)
    /\ ringLog[1].isClosed /\ ~ringLog[2].isClosed
    /\ IndexEntries(1) = IndexEntries(2)

\* C4: after any sequence of builder calls into the same buffers the start index
\* of every ring equals the number of vertices emitted before that ring, every
\* ring is preceded by exactly 2 repeated entries equal to its start index, and
\* the 4n sequential indices of different rings occupy pairwise disjoint,
\* contiguous ranges.
C4_StartIndexIsVertexCount ==
    /\ \A k \in 1..Len(ringLog) :
        LET pos == ringLog[k].indexesBefore
            start == ringLog[k].ordersBefore
        IN /\ outIndexes[pos + 1] = start
           /\ outIndexes[pos + 2] = start
           /\ pos > 0 => outIndexes[pos] # start
           /\ \A i \in 0..(4 * RingLen(k) - 1) : outIndexes[pos + 3 + i] = start + i
    /\ \A k, l \in 1..Len(ringLog) :
        k < l => ringLog[k].ordersBefore + 4 * RingLen(k) <= ringLog[l].ordersBefore

C4_Witness ==
    /\ Len(ringLog) = 2
    /\ ringLog[2].first
    /\ ringLog[2].ordersBefore = 4 * (RingLen(1) + 2)
    /\ outIndexes[ringLog[2].indexesBefore + 1] = ringLog[2].ordersBefore

\* C5: for a single open path of n >= 2 points built into empty buffers the
\* index entries from the first index of the first real point to the last index
\* of the last real point are 0, 1, ..., 4n-1 in order, so no two consecutive
\* entries among them are equal.
C5_UnbrokenStrip ==
    (Len(ringLog) = 1 /\ ~ringLog[1].isClosed) =>
        /\ \A i \in 0..(4 * RingLen(1) - 1) : outIndexes[3 + i] = i
        /\ \A i \in 3..(4 * RingLen(1) + 1) : outIndexes[i] # outIndexes[i + 1]

C5_Witness ==
    /\ Len(ringLog) = 1
    /\ ~ringLog[1].isClosed
    /\ RingLen(1) = 3
    /\ Len(outIndexes) = 2 + 12 + 4
    /\ outIndexes[14] = 11

-----------------------------------------------------------------------------
(* Properties of the polyline (Spec) *)

\* the polyline has a render node / a render node with an ellipsoid
Attached == _renderNode # Null

AttachedToEllipsoid == _renderNode # Null /\ _renderNode.ellipsoid

\* the points of a path, ring after ring
RECURSIVE PathPoints(_)
PathPoints(path) ==
    IF path = <<>> THEN <<>> ELSE Head(path).items \o PathPoints(Tail(path))

\* C6: on an attached polyline setPathLonLat(P, forceEqual = true), P with the
\* ring count, per-ring point counts and closure of the current mesh, leaves
\* _vertices equal to the vertex buffer appendLineDataLonLat builds from P into
\* empty buffers, for open and closed, single- and multi-ring paths.
C6_EqualUpdateLonLatMatchesRebuild ==
    (/\ lastCall.op = "setPathLonLat"
     /\ lastCall.forceEqual
     /\ lastCall.equalTopology
     /\ AttachedToEllipsoid)
        => _vertices = FreshLonLat(lastCall.path).outVertices

C6_Witness ==
    /\ lastCall.op = "setPathLonLat"
    /\ lastCall.forceEqual
    /\ lastCall.equalTopology
    /\ AttachedToEllipsoid
    /\ Len(lastCall.path) = 2
    /\ ~_closedLine
    /\ _changedBuffers[VERTICES_BUFFER] /\ ~_changedBuffers[INDEX_BUFFER]
    /\ Len(_vertices) = 3 * 4 * (3 + 2 + 2 + 2)
    /\ _verticesBuffer # Null /\ _verticesBuffer.data # _vertices

\* C7: on an attached polyline setPath3v(P, forceEqual = true), P with the
\* topology of the current mesh, completes without error and leaves _vertices
\* equal to the vertex buffer appendLineData3v builds from P into empty buffers.
C7_EqualUpdate3vMatchesRebuild ==
    (/\ lastCall.op = "setPath3v"
     /\ lastCall.forceEqual
     /\ lastCall.equalTopology
     /\ Attached)
        => /\ lastCall.error = "none"
           /\ _vertices = Fresh3v(lastCall.path).outVertices

\* the step is an equal-topology update of the attached polyline
EqualTopologyUpdateStep ==
    /\ lastCall'.forceEqual
    /\ lastCall'.equalTopology
    /\ \/ lastCall'.op = "setPathLonLat" /\ AttachedToEllipsoid
       \/ lastCall'.op = "setPath3v" /\ Attached

ReusesBuffers ==
    /\ _orders' = _orders
    /\ _indexes' = _indexes
    /\ Len(_vertices') = Len(_vertices)
    /\ _changedBuffers'[VERTICES_BUFFER]
    /\ _changedBuffers'[INDEX_BUFFER] = _changedBuffers[INDEX_BUFFER]

\* C8: an equal-topology update (setPathLonLat or setPath3v with forceEqual on
\* an attached polyline) leaves _orders and _indexes and the length of _vertices
\* unchanged, sets the dirty flag of the vertices buffer and does not set the
\* dirty flag of the index buffer.
C8_EqualUpdateReusesBuffers ==
    [][EqualTopologyUpdateStep => ReusesBuffers]_vars

\* what of C8 the geodetic update does
C8_LonLatUpdateReusesBuffers ==
    [][(EqualTopologyUpdateStep /\ lastCall'.op = "setPathLonLat") => ReusesBuffers]_vars

\* C9: after every path replacement on an attached polyline (setPath3v or
\* setPathLonLat without forceEqual) _path3v, _pathLonLat and _pathLonLatMerc
\* each hold exactly one entry per point of the path just set, in path order;
\* no entry of an earlier path remains.
C9_StoredPathsFollowLastPath ==
    (/\ lastCall.op \in {"setPath3v", "setPathLonLat"}
     /\ ~lastCall.forceEqual
     /\ lastCall.error = "none"
     /\ AttachedToEllipsoid)
        => LET points == PathPoints(lastCall.path)
               cartesian(i) == IF lastCall.op = "setPath3v" THEN ToVector3(points[i])
                               ELSE lonLatToCartesian(points[i])
               lonLat(i) == IF lastCall.op = "setPath3v"
                            THEN cartesianToLonLat(ToVector3(points[i]))
                            ELSE points[i]
           IN /\ Len(_path3v) = Len(points)
              /\ Len(_pathLonLat) = Len(points)
              /\ Len(_pathLonLatMerc) = Len(points)
              /\ \A i \in 1..Len(points) :
                    /\ _path3v[i] = cartesian(i)
                    /\ _pathLonLat[i] = lonLat(i)
                    /\ _pathLonLatMerc[i] = forwardMercator(lonLat(i))

\* C10: every WebGL buffer created and not yet deleted is the polyline's current
\* _verticesBuffer, _ordersBuffer or _indexesBuffer.
C10_NoLeakedBuffer ==
    \A id \in gl.buffers :
        \E b \in {_verticesBuffer, _ordersBuffer, _indexesBuffer} :
            b # Null /\ b.id = id

\* the mesh, the buffers and the flags of the polyline
meshAndBuffers ==
    <<visibility, _closedLine, _path3v, _pathLonLat, _pathLonLatMerc, _vertices,
      _orders, _indexes, _verticesBuffer, _ordersBuffer, _indexesBuffer,
      _renderNode, _changedBuffers, gl>>

\* C11: draw() and drawPicking() on a polyline that is invisible or whose stored
\* path _path3v is empty issue no GPU draw call, rebuild no buffer and change no
\* dirty flag nor any other state of the polyline.
C11_DrawSkipsInvisibleOrEmpty ==
    [][(/\ lastCall'.op \in {"draw", "drawPicking"}
        /\ (~visibility \/ _path3v = <<>>))
          => /\ ~lastCall'.drawn
             /\ lastCall'.error = "none"
             /\ UNCHANGED meshAndBuffers]_vars

C11_Witness ==
    /\ lastCall.op \in {"draw", "drawPicking"}
    /\ ~lastCall.drawn
    /\ lastCall.error = "none"
    /\ ~visibility
    /\ Attached
    /\ _path3v # <<>>
    /\ _vertices # <<>>
    /\ _changedBuffers[VERTICES_BUFFER] /\ _changedBuffers[INDEX_BUFFER]
    /\ _verticesBuffer = Null
    /\ gl.created = 0

\* C12: when draw() issues its GPU draw call, all dirty flags are false and
\* every buffer whose dirty flag was set when draw() was called has been rebuilt
\* in this call from the current line data.
C12_DrawResolvesPendingRebuilds ==
    [][(lastCall'.op = "draw" /\ lastCall'.drawn)
          => /\ ~_changedBuffers'[VERTICES_BUFFER]
             /\ ~_changedBuffers'[INDEX_BUFFER]
             /\ _changedBuffers[VERTICES_BUFFER] =>
                   /\ _verticesBuffer'.id > gl.created
                   /\ _verticesBuffer'.data = _vertices
             /\ _changedBuffers[INDEX_BUFFER] =>
                   /\ _ordersBuffer'.id > gl.created
                   /\ _ordersBuffer'.data = _orders
                   /\ _indexesBuffer'.id > gl.created
                   /\ _indexesBuffer'.data = _indexes]_vars

C12_Witness ==
    /\ lastCall.op = "draw"
    /\ lastCall.drawn
    /\ gl.created = 4
    /\ _verticesBuffer.id = 4
    /\ _verticesBuffer.data = _vertices
    /\ _vertices # <<>>
    /\ ~_changedBuffers[VERTICES_BUFFER] /\ ~_changedBuffers[INDEX_BUFFER]

\* the mesh a from-scratch build of the stored path gives: of the geodetic path
\* when one is stored, otherwise of the cartesian path
StoredPathMesh ==
    IF _pathLonLat # <<>> THEN FreshLonLat(_pathLonLat) ELSE Fresh3v(_path3v)

\* the step leaves the polyline with the mesh of the path stored before it
BuildsStoredPath ==
    /\ _vertices' = StoredPathMesh.outVertices
    /\ _orders' = StoredPathMesh.outOrders
    /\ _indexes' = StoredPathMesh.outIndexes

\* while the polyline has no render node the setters only store the path, and
\* the mesh arrays stay empty and the buffer handles null
DetachedOnlyStores ==
    /\ (_renderNode' = Null /\ lastCall'.op = "setPath3v")
         => (_path3v' = lastCall'.path /\ _pathLonLat' = _pathLonLat)
    /\ (_renderNode' = Null /\ lastCall'.op = "setPathLonLat")
         => (_pathLonLat' = lastCall'.path /\ _path3v' = _path3v)
    /\ _renderNode' = Null
         => /\ _vertices' = <<>> /\ _orders' = <<>> /\ _indexes' = <<>>
            /\ _verticesBuffer' = Null /\ _ordersBuffer' = Null
            /\ _indexesBuffer' = Null

\* C13: while the polyline has no render node, setPath3v and setPathLonLat
\* only store the given path, and _vertices, _orders, _indexes stay empty and
\* the three buffer handles null; setRenderNode then completes and leaves the
\* line mesh built from the stored geodetic path when there is one, otherwise
\* from the stored cartesian path.
C13_DetachedStoresAttachBuilds ==
    [][/\ DetachedOnlyStores
       /\ (_renderNode = Null /\ lastCall'.op = "setRenderNode")
            => (lastCall'.error = "none" /\ BuildsStoredPath)]_vars

\* what of C13 the code does: the setters of the detached polyline only store,
\* and setRenderNode builds the mesh of the stored path unless a geodetic path
\* is stored and the render node has no ellipsoid
C13_AttachWithEllipsoidBuilds ==
    [][/\ DetachedOnlyStores
       /\ (/\ _renderNode = Null
           /\ lastCall'.op = "setRenderNode"
           /\ _pathLonLat # <<>> => _renderNode'.ellipsoid)
            => (lastCall'.error = "none" /\ BuildsStoredPath)]_vars

\* what setRenderNode leaves when a geodetic path is stored and the render node
\* has no ellipsoid: the node assigned, two index entries, no vertex
C13_AttachWithoutEllipsoidThrows ==
    [][(/\ lastCall'.op = "setRenderNode"
        /\ _pathLonLat # <<>>
        /\ ~_renderNode'.ellipsoid)
          => /\ lastCall'.error = "TypeError"
             /\ _vertices' = <<>> /\ _orders' = <<>> /\ _indexes' = <<0, 0>>]_vars

-----------------------------------------------------------------------------
(* Properties of the texture atlas (SpecNode, SpecAtlas) *)

\* two rectangles share a region of positive area
Overlap(a, b) ==
    /\ a.left < b.right /\ b.left < a.right
    /\ a.top < b.bottom /\ b.top < a.bottom

\* rectangle a lies inside rectangle b
Inside(a, b) ==
    /\ b.left <= a.left /\ a.left <= a.right /\ a.right <= b.right
    /\ b.top <= a.top /\ a.top <= a.bottom /\ a.bottom <= b.bottom

\* C14: after any sequence of insert calls on a tree rooted at the canvas
\* rectangle, the rectangles of the leaves that hold an image are pairwise
\* non-overlapping and each lies inside the canvas rectangle.
C14_ImageLeavesDisjointInsideCanvas ==
    /\ \A leaf \in ImageLeaves(root) : Inside(leaf.rect, CanvasRect)
    /\ \A a \in ImageLeaves(root) : \A b \in ImageLeaves(root) :
          a # b => ~Overlap(a.rect, b.rect)

C14_Witness ==
    /\ Len(insertLog) = 3
    /\ Cardinality(ImageLeaves(root)) = 3
    /\ \E a \in ImageLeaves(root) : \E b \in ImageLeaves(root) :
          /\ a.rect.right = b.rect.left
          /\ a.rect.top = b.rect.top
          /\ a.image.width = 90
    /\ \E c \in ImageLeaves(root) : c.rect.top > 0

\* C15: when addImage is given an image for which no free region exists, the
\* atlas is left as it was before the call: _images, nodes and the placements
\* of the images added before are unchanged.
C15_FailedAddLeavesAtlasUnchanged ==
    [][(lastAdd'.op = "addImage" /\ lastAdd'.error # "none")
          => /\ _images' = _images
             /\ nodes' = nodes
             /\ _btree' = _btree]_vars

\* the rectangle given to every image size by a tree
Packing(btree) ==
    {<<leaf.image.width, leaf.image.height, leaf.rect>> : leaf \in ImageLeaves(btree)}

\* the images in the order perm, a permutation of their positions
Reordered(images, perm) == [i \in 1..Len(images) |-> images[perm[i]]]

\* every image of _images has a leaf of the tree
AllPlaced == _btree # Null /\ Cardinality(ImageLeaves(_btree)) = Len(_images)

\* C16: for images that all fit, the packing does not depend on the order of
\* the addImage calls: the atlas built from the same images added in any other
\* order gives every image size the same rectangle.
C16_PackingIgnoresInsertionOrder ==
    AllPlaced =>
        \A perm \in Permutations(1..Len(_images)) :
            LET other == _makeAtlas(Reordered(_images, perm), canvas, Null, <<>>)
            IN /\ other.error = "none"
               /\ Packing(other.btree) = Packing(_btree)

C16_Witness ==
    /\ AllPlaced
    /\ Len(_images) = 3
    /\ _images[1].width = 50 /\ _images[1].height = 50
    /\ _images[2].width = 10
    /\ _images[3].width = 200
    /\ <<200, 200, Rectangle(54, 14, 258, 218)>> \in Packing(_btree)
    /\ <<50, 50, Rectangle(0, 14, 54, 68)>> \in Packing(_btree)
    /\ <<10, 10, Rectangle(0, 0, 14, 14)>> \in Packing(_btree)

\* the first insert into the empty tree over the 100 by 100 canvas was of a
\* 90 by 90 image
First90 ==
    /\ Len(insertLog) >= 1
    /\ insertLog[1].img.width = 90
    /\ insertLog[1].img.height = 90

\* C17 as stated: on a 100 by 100 canvas with border 4 the insert of one 90 by
\* 90 image into the empty tree succeeds and the image occupies the root node;
\* any second insert of an image of nonzero size fails.
C17_ImageOccupiesRootSecondFails ==
    First90 =>
        /\ insertLog[1].node # Null
        /\ root.image = insertLog[1].img
        /\ Len(insertLog) >= 2 => insertLog[2].node = Null

\* C17: on a 100 by 100 canvas with border 4 the insert of one 90 by 90 image
\* into the empty tree succeeds; the root is split and the image occupies the
\* leaf (0, 0, 94, 94); a second insert succeeds exactly when the image is at
\* most 2 wide and 90 high or at most 96 wide and 2 high, that is when it fits
\* with its border the free leaf (94, 0, 100, 94) or (0, 94, 100, 100).
C17_ImageOccupiesCornerLeaf ==
    First90 =>
        /\ insertLog[1].node # Null
        /\ insertLog[1].node.image = insertLog[1].img
        /\ insertLog[1].node.rect = Rectangle(0, 0, 94, 94)
        /\ root.image = Null
        /\ root.childNodes # Null
        /\ Len(insertLog) >= 2 =>
              LET img == insertLog[2].img
              IN insertLog[2].node # Null <=>
                    \/ img.width <= 2 /\ img.height <= 90
                    \/ img.width <= 96 /\ img.height <= 2

C17_Witness ==
    /\ First90
    /\ Len(insertLog) = 2
    /\ insertLog[2].img.width = 2 /\ insertLog[2].img.height = 2
    /\ insertLog[2].node # Null
    /\ insertLog[2].node.rect = Rectangle(94, 0, 100, 6)
    /\ Cardinality(ImageLeaves(root)) = 2

\* the last operation on the atlas was an addImage that stored the image and
\* returned without an error
AddSucceeded == lastAdd.op = "addImage" /\ lastAdd.added /\ lastAdd.error = "none"

\* the tree after the images im[i..] are inserted in turn into tree
RECURSIVE InsertAll(_, _, _)
InsertAll(tree, im, i) ==
    IF i >= Len(im) THEN tree
    ELSE LET placed == insert(tree, Nth(im, i))
         IN IF placed.node = Null THEN placed.tree
            ELSE InsertAll(placed.tree, im, i + 1)

\* the images of the leaves of a tree, each with its rectangle
Placement(btree) ==
    {[image |-> leaf.image, rect |-> leaf.rect] : leaf \in ImageLeaves(btree)}

\* C18: after every successful addImage the tree is the one built from an empty
\* root over the canvas by inserting all managed images in ascending (width,
\* then height) order, the images are drawn in that order, and the tree has
\* exactly one leaf with an image per managed image: every managed image is
\* placed once and no leaf holds an image that is not managed.
C18_SuccessfulAddRebuildsTree ==
    AddSucceeded =>
        LET sorted == sort(_images)
            fresh == TextureAtlasNode(Rectangle(0, 0, canvas.width, canvas.height))
        IN /\ \A i \in 1..(Len(sorted) - 1) : compare(sorted[i], sorted[i + 1]) <= 0
           /\ Placement(_btree) = Placement(InsertAll(fresh, sorted, 0))
           /\ [i \in 1..Len(canvas.drawn) |-> canvas.drawn[i].image] = sorted
           /\ Cardinality(ImageLeaves(_btree)) = Len(_images)
           /\ {leaf.image : leaf \in ImageLeaves(_btree)} =
                 {_images[i] : i \in 1..Len(_images)}

C18_Witness ==
    /\ AddSucceeded
    /\ Len(_images) = 3
    /\ _images[1].width = 200 /\ _images[2].width = 10 /\ _images[3].width = 50
    /\ _images[3].height = 10
    /\ Cardinality(ImageLeaves(_btree)) = 3

\* the last operation on the atlas was an addImage that ran _makeAtlas: the
\* canvas holds what _makeAtlas drew
MadeAtlas == lastAdd.op = "addImage" /\ lastAdd.added

\* the corner (x, y) in pixels as a pair of texture coordinates of the canvas
Corner(x, y) == <<Div(x, canvas.width), Div(y, canvas.height)>>

\* 0 <= q <= 1 for a fraction q
InUnit(q) == q.den > 0 /\ 0 <= q.num /\ q.num <= q.den

\* C19: for every image placed by _makeAtlas the eight texture coordinates are
\* the corners top-left, bottom-left, top-right, bottom-right of the rectangle
\* of the node inset by half the border on each side, divided by the width and
\* the height of the canvas; each coordinate lies in [0, 1]; the quad spans
\* exactly the width and the height of the image and starts at the pixel
\* (rect.left + border / 2, rect.top + border / 2) where the image is drawn.
C19_TexCoordsAreInsetCorners ==
    _btree # Null =>
        \A leaf \in ImageLeaves(_btree) :
            LET half == BORDER_SIZE \div 2
                x0 == leaf.rect.left + half
                y0 == leaf.rect.top + half
                x1 == leaf.rect.right - half
                y1 == leaf.rect.bottom - half
                tc == leaf.texCoords
            IN /\ tc = Corner(x0, y0) \o Corner(x0, y1) \o Corner(x1, y0) \o Corner(x1, y1)
               /\ \A i \in 1..8 : InUnit(tc[i])
               /\ x1 - x0 = leaf.image.width
               /\ y1 - y0 = leaf.image.height
               /\ MadeAtlas =>
                     \E k \in 1..Len(canvas.drawn) :
                         canvas.drawn[k] = [image |-> leaf.image, x |-> x0, y |-> y0]
               /\ AddSucceeded => nodes[leaf.image.__nodeIndex] = leaf

C19_Witness ==
    /\ AddSucceeded
    /\ Len(_images) = 2
    /\ \E leaf \in ImageLeaves(_btree) :
          /\ leaf.image.width = 50 /\ leaf.image.height = 10
          /\ leaf.rect = Rectangle(14, 0, 68, 14)
          /\ leaf.texCoords[1] = Div(16, 1024) /\ leaf.texCoords[2] = Div(2, 1024)
          /\ leaf.texCoords[7] = Div(66, 1024) /\ leaf.texCoords[8] = Div(12, 1024)

\* the images a further insert is called with
Candidates ==
    {Image(width, height, Len(insertLog)) : width \in NodeSizes, height \in NodeSizes}

\* node holds img in a rectangle of the size of img plus the border
HoldsPadded(node, img) ==
    /\ node.childNodes = Null
    /\ node.image = img
    /\ getWidth(node.rect) = img.width + BORDER_SIZE
    /\ getHeight(node.rect) = img.height + BORDER_SIZE

\* C20: insert called on a node without children returns null if the node
\* already holds an image or if the size of the image plus BORDER_SIZE exceeds
\* the rectangle of the node in width or in height; every successful insert
\* returns a leaf that holds the image and whose rectangle is exactly
\* (image.width + BORDER_SIZE) by (image.height + BORDER_SIZE).
C20_LeafRejectsOrPlacesPadded ==
    /\ \A leaf \in Leaves(root) : \A img \in Candidates :
          LET placed == insert(leaf, img)
          IN /\ leaf.image # Null => placed.node = Null
             /\ img.width + BORDER_SIZE > getWidth(leaf.rect) => placed.node = Null
             /\ img.height + BORDER_SIZE > getHeight(leaf.rect) => placed.node = Null
             /\ placed.node # Null =>
                   /\ HoldsPadded(placed.node, img)
                   /\ placed.node \in Leaves(placed.tree)
    /\ \A i \in 1..Len(insertLog) :
          insertLog[i].node # Null =>
              /\ HoldsPadded(insertLog[i].node, insertLog[i].img)
              /\ insertLog[i].node \in Leaves(root)

C20_Witness ==
    /\ Len(insertLog) = 3
    /\ insertLog[1].node # Null /\ insertLog[1].node.rect = Rectangle(0, 0, 94, 94)
    /\ insertLog[2].node # Null /\ insertLog[2].node.rect = Rectangle(0, 94, 100, 100)
    /\ insertLog[3].img.width = 3 /\ insertLog[3].node = Null
    /\ \E leaf \in Leaves(root) : \E img \in Candidates :
          leaf.image = Null /\ insert(leaf, img).node # Null

\* the number of pixels of a rectangle
Area(r) == (r.right - r.left) * (r.bottom - r.top)

\* the rectangles a and b are disjoint and together cover parent
Partition(a, b, parent) ==
    /\ Inside(a, parent) /\ Inside(b, parent)
    /\ ~Overlap(a, b)
    /\ Area(a) + Area(b) = Area(parent)

\* insert of img on the node leaf goes past both returns of null and past the
\* placement, to the split
Splits(leaf, img) ==
    /\ leaf.childNodes = Null /\ leaf.image = Null
    /\ img.width + BORDER_SIZE <= getWidth(leaf.rect)
    /\ img.height + BORDER_SIZE <= getHeight(leaf.rect)
    /\ ~(/\ img.width + BORDER_SIZE = getWidth(leaf.rect)
         /\ img.height + BORDER_SIZE = getHeight(leaf.rect))

\* C21: when insert splits a leaf for an image of padded size w by h, the two
\* children partition the rectangle of the leaf exactly; if the width slack is
\* strictly larger than the height slack the first child is w wide with the
\* full height of the parent, otherwise (ties included) it has the full width
\* of the parent and is h high; the insertion goes on in the first child and
\* the second child stays an empty leaf.
C21_SplitPartitionsAlongLargerSlack ==
    \A leaf \in Leaves(root) : \A img \in Candidates :
        LET placed == insert(leaf, img)
            rc == leaf.rect
            w == img.width + BORDER_SIZE
            h == img.height + BORDER_SIZE
        IN IF Splits(leaf, img)
           THEN LET first == At(placed.tree.childNodes, 0)
                    second == At(placed.tree.childNodes, 1)
                IN /\ Partition(first.rect, second.rect, rc)
                   /\ IF getWidth(rc) - w > getHeight(rc) - h
                      THEN first.rect = Rectangle(rc.left, rc.top, rc.left + w, rc.bottom)
                      ELSE first.rect = Rectangle(rc.left, rc.top, rc.right, rc.top + h)
                   /\ placed.node # Null
                   /\ placed.node \in Leaves(first)
                   /\ second = TextureAtlasNode(second.rect)
           ELSE placed.tree.childNodes = Null

C21_Witness ==
    /\ Len(insertLog) = 1
    /\ First90
    /\ root.childNodes # Null
    /\ At(root.childNodes, 0).rect = Rectangle(0, 0, 100, 94)
    /\ At(root.childNodes, 1).rect = Rectangle(0, 94, 100, 100)
    /\ At(root.childNodes, 0).childNodes # Null
    /\ At(At(root.childNodes, 0).childNodes, 0).rect = Rectangle(0, 0, 94, 94)
    /\ At(At(root.childNodes, 0).childNodes, 1).rect = Rectangle(94, 0, 100, 94)
    /\ \E leaf \in Leaves(root) : \E img \in Candidates : Splits(leaf, img)

\* C22: a dirty flag that is set is cleared only by the _update of a draw on
\* an attached polyline, which rebuilds the buffer of the flag in the same
\* step; the _update of a draw on a detached polyline rebuilds nothing and
\* leaves both dirty flags as they are; a newly constructed polyline has both
\* flags set.
C22_DirtyClearedOnlyByDrawUpdate ==
    /\ (_changedBuffers[VERTICES_BUFFER] /\ _changedBuffers[INDEX_BUFFER])
    /\ [][/\ (_changedBuffers[VERTICES_BUFFER] /\ ~_changedBuffers'[VERTICES_BUFFER])
               => /\ lastCall'.op = "draw"
                  /\ _renderNode # Null
                  /\ _verticesBuffer'.id > gl.created
                  /\ _verticesBuffer'.data = _vertices
          /\ (_changedBuffers[INDEX_BUFFER] /\ ~_changedBuffers'[INDEX_BUFFER])
               => /\ lastCall'.op = "draw"
                  /\ _renderNode # Null
                  /\ _ordersBuffer'.id > gl.created
                  /\ _ordersBuffer'.data = _orders
                  /\ _indexesBuffer'.id > gl.created
                  /\ _indexesBuffer'.data = _indexes
          /\ (lastCall'.op = "draw" /\ _renderNode = Null)
               => UNCHANGED <<_changedBuffers, _verticesBuffer, _ordersBuffer,
                              _indexesBuffer, gl>>]_vars

C22_Witness ==
    /\ lastCall.op = "draw"
    /\ lastCall.error = "TypeError"
    /\ _renderNode = Null
    /\ visibility
    /\ _path3v # <<>>
    /\ _changedBuffers[VERTICES_BUFFER] /\ _changedBuffers[INDEX_BUFFER]
    /\ _verticesBuffer = Null /\ _ordersBuffer = Null /\ _indexesBuffer = Null
    /\ gl.created = 0

\* C23: whenever draw() or drawPicking() issues its GPU draw call, the three
\* buffers are non-null and were created from the current contents of
\* _vertices, _orders and _indexes.
C23_DrawCallReadsCurrentBuffers ==
    (lastCall.op \in {"draw", "drawPicking"} /\ lastCall.drawn)
        => /\ _verticesBuffer # Null /\ _ordersBuffer # Null /\ _indexesBuffer # Null
           /\ _verticesBuffer.data = _vertices
           /\ _ordersBuffer.data = _orders
           /\ _indexesBuffer.data = _indexes

\* every entry of the index array ix, and the entries 4 and 8 vertices after
\* it, are vertices of the array v of coordinates
IndexesInside(ix, v) ==
    \A k \in 1..Len(ix) : 0 <= ix[k] /\ ix[k] + 8 < Len(v) \div 3

\* C24: after any sequence of appendLineData3v / appendLineDataLonLat calls
\* into the same arrays, every entry i of the index array satisfies 0 <= i and
\* i + 8 < (number of vertices), for the arrays of the builder and for the
\* arrays _indexes and _vertices the polyline passes to it.
C24_IndexesInsideVertices ==
    /\ IndexesInside(outIndexes, outVertices)
    /\ IndexesInside(_indexes, _vertices)

\* all the nodes of a tree
RECURSIVE Nodes(_)
Nodes(node) ==
    IF node.childNodes = Null THEN {node}
    ELSE {node} \cup Nodes(At(node.childNodes, 0)) \cup Nodes(At(node.childNodes, 1))

\* C25: a call of insert that returns null leaves the whole tree as it was, on
\* the root and on every node of the tree: no leaf is split and no image is
\* assigned; the tree changes only in a call that returns the node the image
\* is placed in.
C25_NullInsertLeavesTreeUnchanged ==
    /\ \A node \in Nodes(root) : \A img \in Candidates :
          LET placed == insert(node, img)
          IN /\ placed.node = Null => placed.tree = node
             /\ placed.tree # node =>
                   /\ placed.node # Null
                   /\ placed.node.image = img
                   /\ placed.node \in Leaves(placed.tree)
    /\ [][(insertLog' # insertLog /\ insertLog'[Len(insertLog')].node = Null)
             => root' = root]_vars

C25_Witness ==
    /\ Len(insertLog) = 3
    /\ First90
    /\ insertLog[2].node # Null
    /\ insertLog[3].node = Null
    /\ insertLog[3].img.width = 3 /\ insertLog[3].img.height = 2
    /\ Cardinality(ImageLeaves(root)) = 2
    /\ Cardinality(Nodes(root)) > 5
    /\ insert(root, insertLog[3].img).tree = root

\* the number of nodes of a tree
RECURSIVE Size(_)
Size(node) ==
    IF node.childNodes = Null THEN 1
    ELSE 1 + Size(At(node.childNodes, 0)) + Size(At(node.childNodes, 1))

\* the number of levels under the root of a tree
RECURSIVE Depth(_)
Depth(node) ==
    IF node.childNodes = Null THEN 0
    ELSE LET d0 == Depth(At(node.childNodes, 0))
             d1 == Depth(At(node.childNodes, 1))
         IN 1 + (IF d0 > d1 THEN d0 ELSE d1)

\* the number of calls of insert, the first and the recursive ones, that
\* insert(this, img) makes
RECURSIVE Visits(_, _)
Visits(this, img) ==
    IF this.childNodes # Null
    THEN LET first == insert(At(this.childNodes, 0), img)
         IN 1 + Visits(At(this.childNodes, 0), img)
              + (IF first.node # Null THEN 0 ELSE Visits(At(this.childNodes, 1), img))
    ELSE IF this.image # Null THEN 1
    ELSE IF TooLarge(this.rect, Padded(img.width), Padded(img.height)) THEN 1
    ELSE IF fit(this.rect, Padded(img.width), Padded(img.height)) THEN 1
    ELSE 1 + Visits(TextureAtlasNode(SplitRects(this.rect, Padded(img.width),
                                                Padded(img.height))[1]), img)

\* C26: every call of insert ends, after at most one call per node of the tree
\* and two more; a successful insert splits at most two leaves, that is it makes
\* no, two or four new nodes, before it places the image, and the depth of the
\* tree grows by at most 2 in an insert.
C26_InsertEndsAfterAtMostTwoSplits ==
    /\ \A img \in Candidates :
          /\ Visits(root, img) <= Size(root) + 2
          /\ Depth(insert(root, img).tree) <= Depth(root) + 2
    /\ \A node \in Nodes(root) : \A img \in Candidates :
          LET placed == insert(node, img)
              made == Size(placed.tree) - Size(node)
          IN /\ made \in {0, 2, 4}
             /\ placed.node = Null => made = 0
             /\ Cardinality(ImageLeaves(placed.tree)) =
                   Cardinality(ImageLeaves(node)) + (IF placed.node = Null THEN 0 ELSE 1)

C26_Witness ==
    /\ Len(insertLog) = 2
    /\ insertLog[1].node # Null /\ insertLog[2].node # Null
    /\ insertLog[1].img.width = 2 /\ insertLog[1].img.height = 3
    /\ insertLog[2].img.width = 3
    /\ Size(root) = 9
    /\ Depth(root) = 3
    /\ \E img \in Candidates :
          /\ Size(insert(root, img).tree) = Size(root) + 4
          /\ Visits(root, img) > 3

\* C27: after remove() returns, the field _planet of the layer is null and
\* the list layers of the planet it was attached to has no entry with the id
\* of the layer; remove() on a layer that is not attached changes no field of
\* a layer and no list of a planet; remove() returns the layer.
C27_RemoveDetachesLayer ==
    [][lastLayerCall'.op = "remove" =>
          LET layer == lastLayerCall'.layer
              p == lastLayerCall'.planet
          IN /\ lastLayerCall'.returned = layer
             /\ _planet'[layer] = Null
             /\ p # Null => findLayer(layers'[p], 0, layer) = -1
             /\ p = Null => UNCHANGED <<_planet, layers>>]_vars

=============================================================================
